---- MODULE Spec2Model ----
(***************************************************************************)
(* A model of openalex_final.py (OpenAlexEnergyHubCollector): the          *)
(* deduplicator, the paginated fetcher, the collection orchestrator and    *)
(* the annual aggregator, each under its own specification.                *)
(*                                                                         *)
(* Strings that the code transforms (titles) are sequences of characters;  *)
(* strings that the code only compares or tests for emptiness (ids,        *)
(* categories, search terms) are TLA+ strings.                             *)
(***************************************************************************)
EXTENDS Integers, Sequences, FiniteSets, TLC

VARIABLES
    papers,          \* remove_duplicates: the argument `papers`
    unique_papers,   \* remove_duplicates: the returned list (first call)
    unique_again,    \* the list returned when the result is deduplicated again
    dpc,             \* "off" | "init" | "done" | "twice"
    api,             \* the OpenAlex endpoint: "none" | "any" | "catalog" (see Responses)
    fpc,             \* search_works / search_by_abstract: "idle" | "request" | "returned"
    strategy,        \* "title" (search_works) | "abstract" (search_by_abstract)
    search_query,    \* argument search_query
    category,        \* argument category
    year_range,      \* arguments <<year_start, year_end>>
    page,            \* search_works: the local `page`
    all_papers,      \* search_works: all_papers; search_by_abstract: papers / []
    requests,        \* the page numbers requested by this call, in order
    served,          \* what the endpoint answered to each of these requests
    last_count,      \* the total count of the last answer, as meta.get('count', 0) reads it
    count_varied,    \* whether two answers to this call reported different total counts
    pauses,          \* the time.sleep pauses since the last request, in milliseconds
    cpc,             \* collect_all_papers: "off" | "run" | "done"
    qi,              \* collect_all_papers: the position in the catalog of queries
    coll_all_papers, \* collect_all_papers: its local all_papers
    self_papers,     \* self.papers
    issued,          \* the catalog positions whose search was called, in order
    returned,        \* what each of these searches returned
    failed,          \* the catalog positions of which a request failed
    apc,             \* the presentation run: "off" | "start" | "charted" | "saved" | "reported"
    summary_stats,   \* save_annual_summary_csvs: summary_stats (the annual summary table)
    year_count_matrix, \* save_annual_summary_csvs: year_count_matrix
    summary_growth,  \* save_annual_summary_csvs: the growth printed for rows 2..n
    chart,           \* create_publication_trend_chart: years, the three count lists, growth_rates
    report_growth,   \* create_research_summary_report: the growth written for rows 2..n
    mode,            \* the run mode: the choice of __main__, or direct calls of the methods
    rpc,             \* the run: "off" | "collected" | "run" | "returned"
    step,            \* the position of the run in the calls of its mode
    files            \* the names of the files written by the run

dedupVars == <<papers, unique_papers, unique_again, dpc>>

fetchVars == <<api, fpc, strategy, search_query, category, year_range, page,
               all_papers, requests, served, last_count, count_varied, pauses>>

collectVars == <<cpc, qi, coll_all_papers, self_papers, issued, returned, failed>>

aggVars == <<apc, summary_stats, year_count_matrix, summary_growth, chart, report_growth>>

runVars == <<mode, rpc, step, files>>

vars == <<dedupVars, fetchVars, collectVars, aggVars, runVars>>

----------------------------------------------------------------------------
(* Bounds of the deduplicator's inputs *)

MaxLen == 3

\* in a run of the catalog, only the first MaxPagedQueries queries have results
\* beyond their first page
MaxPagedQueries == 1

\* characters of a title; " " is the only whitespace character used
Whitespace == {" "}

\* raw titles: '', ' ', 'a', ' A' and 'b'
Titles == { <<>>, <<" ">>, <<"a">>, <<" ", "A">>, <<"b">> }

\* ids: '' is the default of work.get('id', '')
Ids == {"", "A", "B"}

DedupYears == {2021, 2022}

DedupPaper == [id : Ids, title : Titles, year : DedupYears]

DedupInputs == UNION { [1..n -> DedupPaper] : n \in 0..MaxLen }

----------------------------------------------------------------------------
(* str.lower() and str.strip() *)

LowerChar(c) == IF c = "A" THEN "a" ELSE IF c = "B" THEN "b" ELSE c

Lower(s) == [i \in 1..Len(s) |-> LowerChar(s[i])]

RECURSIVE LStrip(_)
LStrip(s) ==
    IF s = <<>> THEN s
    ELSE IF Head(s) \in Whitespace THEN LStrip(Tail(s)) ELSE s

RECURSIVE RStrip(_)
RStrip(s) ==
    IF s = <<>> THEN s
    ELSE IF s[Len(s)] \in Whitespace THEN RStrip(SubSeq(s, 1, Len(s) - 1)) ELSE s

Strip(s) == RStrip(LStrip(s))

\* title = str(paper.get('title', '')).lower().strip()
NormalizeTitle(t) == Strip(Lower(t))

----------------------------------------------------------------------------
(* The OpenAlex endpoint as search_works and search_by_abstract see it *)

\* an absent value (Python's None, a missing key) is <<>>, a present one <<v>>
None == <<>>

Some(v) == <<v>>

\* 'per-page': 200
PerPage == 200

\* if page > 10
MaxPages == 10

\* time.sleep(0.1) and time.sleep(1), in milliseconds
ShortPause == 100

LongPause == 1000

\* 2020 <= paper['year'] <= 2025
TargetStart == 2020

TargetEnd == 2025

\* a key of a JSON object: present with a value, absent, or present with null
Present(v) == [st |-> "val", v |-> v]

Absent == [st |-> "absent"]

Null == [st |-> "null"]

\* the nested objects of a work: open_access {is_oa}, primary_location {source
\* {display_name}}, and the elements {author {display_name, orcid}} of authorships
OaDict(is_oa) == [is_oa |-> is_oa]

SourceDict(name) == [display_name |-> name]

LocDict(source) == [source |-> source]

AuthorDict(name, orcid) == [display_name |-> name, orcid |-> orcid]

Authorship(author) == [author |-> author]

\* the objects without keys
EmptyOa == OaDict(Absent)

EmptySource == SourceDict(Absent)

EmptyLoc == LocDict(Absent)

EmptyAuthor == AuthorDict(Absent, Absent)

\* one element of data['results']; publication_year is None when the key is
\* absent or null (work.get('publication_year') does not tell them apart)
Work(id, name, year, cited, oa, loc, authorships) ==
    [id |-> id, display_name |-> name, publication_year |-> year,
     cited_by_count |-> cited, open_access |-> oa, primary_location |-> loc,
     authorships |-> authorships]

\* a work that has an id, a title and a year and none of the other keys
RawWork(id, name, year) ==
    Work(Present(id), Present(name), year, Absent, Absent, Absent, Absent)

NamedAuthor == Authorship(Present(AuthorDict(Present("X"), Present("0000-1"))))

NamelessAuthor == Authorship(Present(AuthorDict(Absent, Present("0000-2"))))

\* a work with every key: open access, 7 citations, a venue and two authors
FullWork(id, name, year) ==
    Work(Present(id), Present(name), year, Present(7), Present(OaDict(Present(TRUE))),
         Present(LocDict(Present(SourceDict(Present("J"))))),
         Present(<<NamedAuthor, NamedAuthor>>))

\* the result pages the endpoint may return: an empty page, and two pages that
\* mix years inside the target window (its two ends) with a null year, the
\* year 0 and years outside the window
PageLow ==
    << RawWork("A", <<"a">>, Some(2020)), RawWork("B", <<"b">>, Some(2019)),
       RawWork("", <<" ", "A">>, Some(0)) >>

PageHigh ==
    << RawWork("", <<"a">>, None), RawWork("B", <<"b">>, Some(2025)),
       RawWork("A", <<>>, Some(2026)) >>

ResultPages == { <<>>, PageLow, PageHigh }

\* a page of works of the target window with keys absent at every level: no key
\* but the year; open_access without is_oa, a null primary_location and an
\* authorship without author; a primary_location without source and a null
\* author; a null source and an author object without keys; then a full work
PageSparse ==
    << Work(Absent, Absent, Some(2021), Absent, Absent, Absent, Absent),
       Work(Present("C"), Present(<<"b">>), Some(2022), Absent, Present(EmptyOa),
            Null, Present(<<Authorship(Absent)>>)),
       Work(Present("D"), Absent, Some(2023), Present(7), Absent,
            Present(EmptyLoc), Present(<<Authorship(Null), NamedAuthor>>)),
       Work(Absent, Present(<<"a">>), Some(2024), Absent, Present(OaDict(Present(TRUE))),
            Present(LocDict(Null)),
            Present(<<Authorship(Present(EmptyAuthor))>>)),
       Work(Present("E"), Present(<<"a">>), Some(2025), Absent, Absent,
            Present(LocDict(Present(EmptySource))),
            Present(<<NamelessAuthor>> \o [i \in 1..10 |-> NamedAuthor])),
       FullWork("F", <<"b">>, Some(2020)) >>

\* pages in which one work has a null where the code reads through it:
\* "open_access": null, and "authorships": null
PageNullOa ==
    << FullWork("A", <<"a">>, Some(2021)),
       Work(Present("B"), Present(<<"b">>), Some(2022), Absent, Null,
            Absent, Absent),
       FullWork("C", <<"a">>, Some(2023)) >>

PageNullAuthorships ==
    << Work(Present("B"), Present(<<"b">>), Some(2022), Absent, Absent,
            Absent, Null),
       FullWork("C", <<"a">>, Some(2023)) >>

RecordPages == { PageSparse, PageNullOa, PageNullAuthorships }

\* the reported total: absent, or a number around one page and around the cap
MetaCounts == { None, Some(200), Some(201), Some(2000), Some(2001), Some(1000000) }

\* requests.get raises (timeout, connection error), or it returns a response
\* with a status code and a JSON body
ApiException == [kind |-> "exception", status |-> 0, results |-> <<>>, count |-> None]

ApiResponses ==
    {ApiException}
        \cup [kind : {"http"}, status : {200}, results : ResultPages, count : MetaCounts]
        \cup [kind : {"http"}, status : {500}, results : ResultPages, count : {None}]
        \cup [kind : {"http"}, status : {200}, results : RecordPages, count : {Some(201)}]

\* the answers of the endpoint during a run of the whole catalog: a transport
\* failure, an error status, or a page with one work of 2021 that is the only
\* page (a total of 1) or the first of two (a total of 201)
CollectResponses ==
    { ApiException,
      [kind |-> "http", status |-> 500, results |-> <<>>, count |-> None],
      [kind |-> "http", status |-> 200,
       results |-> <<RawWork("A", <<"a">>, Some(2021))>>, count |-> Some(1)],
      [kind |-> "http", status |-> 200,
       results |-> <<RawWork("A", <<"a">>, Some(2021))>>, count |-> Some(201)] }

\* what requests.get may do at a request: anything (one call of a search), or
\* what it does during a run of the whole catalog
Responses ==
    IF api = "any" THEN ApiResponses
    ELSE IF api = "catalog" THEN CollectResponses
    ELSE {}

\* the arguments of the calls: quick_openalex_test passes 2020-2025, and
\* collect_all_papers leaves the defaults (2004-2025 for the title search)
TitleYearRanges == { <<2004, 2025>>, <<2020, 2025>> }

AbstractYearRanges == { <<2020, 2025>>, <<2004, 2025>> }

Categories == {"core", "related"}

----------------------------------------------------------------------------
(* search_works *)

\* the truth value of paper['year']: None and 0 are false
Truthy(year) == year # None /\ year[1] # 0

InTargetWindowOfRange(year, range) == Truthy(year) /\ range[1] <= year[1] /\ year[1] <= range[2]

\* if paper['year'] and 2020 <= paper['year'] <= 2025
InTargetWindow(year, range) ==
    Truthy(year) /\ TargetStart <= year[1] /\ year[1] <= TargetEnd

\* d.get(key, default) of a key that is not null
GetOr(field, default) == IF field.st = "val" THEN field.v ELSE default

\* the truth value of an object read from a key ({} and None are false); the
\* objects of a work have no keys but the ones modelled
TruthyObject(field, empty) == field.st = "val" /\ field.v # empty

\* work.get('open_access', {}).get('is_oa', False) raises AttributeError when
\* the value of open_access is None
OpenAccessRaises(work) == work.open_access.st = "null"

\* work.get('open_access', {}).get('is_oa', False)
IsOa(work) == GetOr(GetOr(work.open_access, EmptyOa).is_oa, FALSE)

\* authorships[:10] raises TypeError when the value of authorships is None
AuthorshipsRaises(work) == work.authorships.st = "null"

\* primary_location = work.get('primary_location', {}); if primary_location:
\* source = primary_location.get('source', {}); if source: paper['venue'] = ...
Venue(work) ==
    LET primary_location == work.primary_location
    IN  IF TruthyObject(primary_location, EmptyLoc)
        THEN LET source == primary_location.v.source
             IN  IF TruthyObject(source, EmptySource)
                 THEN GetOr(source.v.display_name, "")
                 ELSE ""
        ELSE ""

\* authorships[:10]
FirstTen(s) == SubSeq(s, 1, IF Len(s) < 10 THEN Len(s) ELSE 10)

\* for authorship in authorships[:10]: author = authorship.get('author', {});
\* if author: paper['authors'].append({'name': ..., 'orcid': ...})
RECURSIVE AuthorsOf(_)
AuthorsOf(authorships) ==
    IF authorships = <<>> THEN <<>>
    ELSE LET author == Head(authorships).author
             rest   == AuthorsOf(Tail(authorships))
         IN  IF TruthyObject(author, EmptyAuthor)
             THEN <<[name |-> GetOr(author.v.display_name, ""),
                     orcid |-> IF author.v.orcid.st = "val" THEN Some(author.v.orcid.v)
                               ELSE None]>>
                      \o rest
             ELSE rest

Authors(work) == AuthorsOf(FirstTen(GetOr(work.authorships, <<>>)))

\* whether building the paper of a work raises
WorkRaises(work) == OpenAccessRaises(work) \/ AuthorshipsRaises(work)

\* paper = {...}, then venue and authors
BuildPaper(work, query, cat, src) ==
    [id |-> GetOr(work.id, ""), title |-> GetOr(work.display_name, <<>>),
     year |-> work.publication_year,
     citation_count |-> GetOr(work.cited_by_count, 0),
     open_access |-> IsOa(work), venue |-> Venue(work), authors |-> Authors(work),
     search_term |-> query, category |-> cat, source |-> src]

\* for work in results: ... all_papers.append(paper); the papers appended, and
\* whether a work raised (the works after it are not reached)
RECURSIVE ProcessResults(_, _, _, _)
ProcessResults(results, query, cat, range) ==
    IF results = <<>> THEN [papers |-> <<>>, raised |-> FALSE]
    ELSE IF WorkRaises(Head(results)) THEN [papers |-> <<>>, raised |-> TRUE]
    ELSE LET paper == BuildPaper(Head(results), query, cat, "openalex")
             rest  == ProcessResults(Tail(results), query, cat, range)
         IN  IF InTargetWindow(paper.year, range)
             THEN [papers |-> <<paper>> \o rest.papers, raised |-> rest.raised]
             ELSE rest

StatusErrorNever(status) == FALSE

\* if response.status_code != 200
StatusError(status) == status # 200

\* meta.get('count', 0)
CountOf(count) == IF count = None THEN 0 ELSE count[1]

\* if page >= meta.get('count', 0) / params['per-page']
LastPage(p, count) == p * PerPage >= CountOf(count)

SafetyLimitNever(p) == FALSE

\* if page > 10
SafetyLimit(p) == p > MaxPages

\* time.sleep(0.1), between the pages of a query
PageSleep(ps) == Append(ps, ShortPause)

QuerySleepNever(ps) == ps

\* time.sleep(1), after every query of the catalog
QuerySleep(ps) == Append(ps, LongPause)

FetchIdle ==
    /\ fpc = "idle"
    /\ strategy = "title"
    /\ search_query = ""
    /\ category = ""
    /\ year_range = <<0, 0>>
    /\ page = 1
    /\ all_papers = <<>>
    /\ requests = <<>>
    /\ served = <<>>
    /\ last_count = None
    /\ count_varied = FALSE
    /\ pauses = <<>>

\* no run of collect_all_papers
CollectOff ==
    /\ cpc = "off"
    /\ qi = 1
    /\ coll_all_papers = <<>>
    /\ self_papers = <<>>
    /\ issued = <<>>
    /\ returned = <<>>
    /\ failed = {}

\* no presentation run
AggOff ==
    /\ apc = "off"
    /\ summary_stats = <<>>
    /\ year_count_matrix = <<>>
    /\ summary_growth = <<>>
    /\ chart = <<>>
    /\ report_growth = <<>>

\* no run of a mode of __main__
RunOff ==
    /\ mode = "none"
    /\ rpc = "off"
    /\ step = 0
    /\ files = {}

\* the entry of search_works(search_query, category, year_start, year_end)
EnterSearchWorks(query, cat, range) ==
    /\ fpc = "idle"
    /\ fpc' = "request"
    /\ strategy' = "title"
    /\ search_query' = query
    /\ category' = cat
    /\ year_range' = range
    /\ page' = 1
    /\ all_papers' = <<>>
    /\ requests' = <<>>
    /\ served' = <<>>
    /\ last_count' = None
    /\ count_varied' = FALSE
    /\ UNCHANGED <<api, pauses>>

\* one iteration of `while True`: the request of page `page` and what follows it
SearchWorksPage ==
    /\ fpc = "request"
    /\ strategy = "title"
    /\ \E resp \in Responses :
        /\ requests' = Append(requests, page)
        /\ served' = Append(served, [kind |-> resp.kind, status |-> resp.status,
                                     results |-> resp.results])
        /\ last_count' = resp.count
        /\ count_varied' = (count_varied \/ (served # <<>> /\ resp.count # last_count))
        /\ IF resp.kind = "exception" \/ StatusError(resp.status) \/ resp.results = <<>>
           THEN \* except Exception / break / break
                /\ fpc' = "returned"
                /\ pauses' = <<>>
                /\ UNCHANGED <<page, all_papers>>
           ELSE LET done == ProcessResults(resp.results, search_query, category, year_range)
                IN  /\ all_papers' = all_papers \o done.papers
                    /\ IF done.raised \/ LastPage(page, resp.count)
                       THEN \* except Exception / break
                            /\ fpc' = "returned"
                            /\ pauses' = <<>>
                            /\ UNCHANGED page
                       ELSE \* page += 1; time.sleep(0.1); if page > 10: break
                            /\ page' = page + 1
                            /\ pauses' = PageSleep(<<>>)
                            /\ fpc' = IF SafetyLimit(page + 1) THEN "returned" ELSE "request"
    /\ UNCHANGED <<api, strategy, search_query, category, year_range>>

----------------------------------------------------------------------------
(* search_by_abstract *)

\* if work.get('publication_year') and 2020 <= work.get('publication_year') <= 2025
AbstractInTargetWindow(year) ==
    Truthy(year) /\ TargetStart <= year[1] /\ year[1] <= TargetEnd

\* paper = {...} of search_by_abstract: no open_access, venue or authors
BuildAbstractPaper(work, query, cat) ==
    [id |-> GetOr(work.id, ""), title |-> GetOr(work.display_name, <<>>),
     year |-> work.publication_year,
     citation_count |-> GetOr(work.cited_by_count, 0),
     search_term |-> query, category |-> cat, source |-> "openalex_abstract"]

\* for work in results: ... papers.append(paper)
RECURSIVE AbstractResults(_, _, _)
AbstractResults(results, query, cat) ==
    IF results = <<>> THEN <<>>
    ELSE LET work == Head(results)
             rest == AbstractResults(Tail(results), query, cat)
         IN  IF AbstractInTargetWindow(work.publication_year)
             THEN <<BuildAbstractPaper(work, query, cat)>> \o rest
             ELSE rest

\* the entry of search_by_abstract(search_query, category, year_start, year_end)
EnterSearchByAbstract(query, cat, range) ==
    /\ fpc = "idle"
    /\ fpc' = "request"
    /\ strategy' = "abstract"
    /\ search_query' = query
    /\ category' = cat
    /\ year_range' = range
    /\ page' = 1
    /\ all_papers' = <<>>
    /\ requests' = <<>>
    /\ served' = <<>>
    /\ last_count' = None
    /\ count_varied' = FALSE
    /\ UNCHANGED <<api, pauses>>

\* the single request of search_by_abstract and what follows it
SearchByAbstractRequest ==
    /\ fpc = "request"
    /\ strategy = "abstract"
    /\ \E resp \in Responses :
        /\ requests' = Append(requests, 1)
        /\ served' = Append(served, [kind |-> resp.kind, status |-> resp.status,
                                     results |-> resp.results])
        /\ last_count' = resp.count
        /\ all_papers' = IF resp.kind = "http" /\ resp.status = 200
                         THEN AbstractResults(resp.results, search_query, category)
                         ELSE <<>>
    /\ pauses' = <<>>
    /\ fpc' = "returned"
    /\ UNCHANGED <<api, strategy, search_query, category, year_range, page, count_varied>>

----------------------------------------------------------------------------
(* One call of search_works or of search_by_abstract, for any answers *)

FetchInit ==
    /\ papers = <<>>
    /\ unique_papers = <<>>
    /\ unique_again = <<>>
    /\ dpc = "off"
    /\ FetchIdle
    /\ api = "any"
    /\ CollectOff
    /\ AggOff
    /\ RunOff

CallSearchWorks ==
    /\ \E cat \in Categories, range \in TitleYearRanges :
           EnterSearchWorks("energy hub", cat, range)
    /\ cpc = "off"
    /\ UNCHANGED <<dedupVars, collectVars, aggVars, runVars>>

CallSearchByAbstract ==
    /\ \E range \in AbstractYearRanges :
           EnterSearchByAbstract("energy hub", "related", range)
    /\ cpc = "off"
    /\ UNCHANGED <<dedupVars, collectVars, aggVars, runVars>>

FetchPage == SearchWorksPage /\ UNCHANGED <<dedupVars, collectVars, aggVars, runVars>>

FetchAbstract == SearchByAbstractRequest /\ UNCHANGED <<dedupVars, collectVars, aggVars, runVars>>

FetchNext == CallSearchWorks \/ CallSearchByAbstract \/ FetchPage \/ FetchAbstract

SpecFetch == FetchInit /\ [][FetchNext]_vars

----------------------------------------------------------------------------
(* remove_duplicates *)

KeepByIdNotEmpty(paper_id, seen_ids) == paper_id # ""

KeepByIdNotSeen(paper_id, seen_ids) == paper_id \notin seen_ids

\* if paper_id and paper_id not in seen_ids
KeepById(paper_id, seen_ids) == paper_id # "" /\ paper_id \notin seen_ids

KeepByTitleNoSeen(title, seen_titles) == title # <<>>

\* elif title and title not in seen_titles
KeepByTitle(title, seen_titles) == title # <<>> /\ title \notin seen_titles

KeepPaperFront(unique, paper) == <<paper>> \o unique

\* unique_papers.append(paper)
KeepPaper(unique, paper) == Append(unique, paper)

\* the body of `for paper in papers`, from record i on, with the loop's locals
RECURSIVE DedupLoop(_, _, _, _, _)
DedupLoop(ps, i, unique, seen_ids, seen_titles) ==
    IF i > Len(ps) THEN unique
    ELSE LET paper    == ps[i]
             paper_id == paper.id
             title    == NormalizeTitle(paper.title)
         IN  IF KeepById(paper_id, seen_ids)
             THEN DedupLoop(ps, i + 1, KeepPaper(unique, paper),
                            seen_ids \cup {paper_id}, seen_titles)
             ELSE IF KeepByTitle(title, seen_titles)
             THEN DedupLoop(ps, i + 1, KeepPaper(unique, paper),
                            seen_ids, seen_titles \cup {title})
             ELSE DedupLoop(ps, i + 1, unique, seen_ids, seen_titles)

RemoveDuplicates(ps) == DedupLoop(ps, 1, <<>>, {}, {})

DedupInit ==
    /\ papers \in DedupInputs
    /\ unique_papers = <<>>
    /\ unique_again = <<>>
    /\ dpc = "init"
    /\ FetchIdle
    /\ api = "none"
    /\ CollectOff
    /\ AggOff
    /\ RunOff

\* unique_papers = self.remove_duplicates(papers)
DedupCall ==
    /\ dpc = "init"
    /\ unique_papers' = RemoveDuplicates(papers)
    /\ dpc' = "done"
    /\ UNCHANGED <<papers, unique_again, fetchVars, collectVars, aggVars, runVars>>

\* remove_duplicates applied to its own result
DedupAgain ==
    /\ dpc = "done"
    /\ unique_again' = RemoveDuplicates(unique_papers)
    /\ dpc' = "twice"
    /\ UNCHANGED <<papers, unique_papers, fetchVars, collectVars, aggVars, runVars>>

DedupNext == DedupCall \/ DedupAgain

SpecDedup == DedupInit /\ [][DedupNext]_vars

----------------------------------------------------------------------------
(* collect_all_papers *)

\* self.search_terms, in the order of the two nested loops
TitleCatalog ==
    << [strategy |-> "title", term |-> "energy hub", category |-> "core"],
       [strategy |-> "title", term |-> "energy hubs", category |-> "core"],
       [strategy |-> "title", term |-> "energy hub optimization", category |-> "core"],
       [strategy |-> "title", term |-> "energy hub modeling", category |-> "core"],
       [strategy |-> "title", term |-> "multi-energy system", category |-> "related"],
       [strategy |-> "title", term |-> "integrated energy system", category |-> "related"],
       [strategy |-> "title", term |-> "multi-carrier energy", category |-> "related"],
       [strategy |-> "title", term |-> "energy system integration", category |-> "related"],
       [strategy |-> "title", term |-> "multi-energy hub", category |-> "related"],
       [strategy |-> "title", term |-> "energy nexus", category |-> "related"] >>

\* key_terms, searched with category 'related'
AbstractCatalog ==
    << [strategy |-> "abstract", term |-> "energy hub", category |-> "related"],
       [strategy |-> "abstract", term |-> "multi-energy system", category |-> "related"],
       [strategy |-> "abstract", term |-> "integrated energy system", category |-> "related"] >>

CatalogAbstractFirst == AbstractCatalog \o TitleCatalog

\* the order of the searches: the two loops of strategy 1, then the loop of strategy 2
Catalog == TitleCatalog \o AbstractCatalog

\* the defaults year_start=2004, year_end=2025 of search_works
TitleDefaultRange == <<2004, 2025>>

\* the defaults year_start=2020, year_end=2025 of search_by_abstract
AbstractDefaultRange == <<2020, 2025>>

ExtendAllPapersAssign(acc, ps) == ps

\* all_papers.extend(papers)
ExtendAllPapers(acc, ps) == acc \o ps

CollectInit ==
    /\ papers = <<>>
    /\ unique_papers = <<>>
    /\ unique_again = <<>>
    /\ dpc = "off"
    /\ FetchIdle
    /\ api = "catalog"
    /\ cpc = "run"
    /\ qi = 1
    /\ coll_all_papers = <<>>
    /\ self_papers = <<>>
    /\ issued = <<>>
    /\ returned = <<>>
    /\ failed = {}
    /\ AggOff
    /\ RunOff

\* papers = self.search_works(term, category) / self.search_by_abstract(term, 'related')
CollectCall ==
    /\ cpc = "run"
    /\ qi <= Len(Catalog)
    /\ LET query == Catalog[qi]
       IN  IF query.strategy = "title"
           THEN EnterSearchWorks(query.term, query.category, TitleDefaultRange)
           ELSE EnterSearchByAbstract(query.term, query.category, AbstractDefaultRange)
    /\ issued' = Append(issued, qi)
    /\ UNCHANGED <<dedupVars, cpc, qi, coll_all_papers, self_papers, returned, failed, aggVars, runVars>>

CollectPage ==
    /\ cpc = "run"
    /\ SearchWorksPage
    /\ fpc' = "request" => qi <= MaxPagedQueries
    /\ UNCHANGED <<dedupVars, collectVars, aggVars, runVars>>

CollectAbstract ==
    SearchByAbstractRequest /\ cpc = "run" /\ UNCHANGED <<dedupVars, collectVars, aggVars, runVars>>

\* the search returns: all_papers.extend(papers); time.sleep(1); next term
CollectExtend ==
    /\ cpc = "run"
    /\ fpc = "returned"
    /\ coll_all_papers' = ExtendAllPapers(coll_all_papers, all_papers)
    /\ returned' = Append(returned, all_papers)
    /\ failed' = IF \E k \in 1..Len(served) :
                        served[k].kind = "exception" \/ served[k].status # 200
                 THEN failed \cup {qi} ELSE failed
    /\ qi' = qi + 1
    /\ fpc' = "idle"
    /\ strategy' = "title"
    /\ search_query' = ""
    /\ category' = ""
    /\ year_range' = <<0, 0>>
    /\ page' = 1
    /\ all_papers' = <<>>
    /\ requests' = <<>>
    /\ served' = <<>>
    /\ last_count' = None
    /\ count_varied' = FALSE
    /\ pauses' = QuerySleep(pauses)
    /\ UNCHANGED <<dedupVars, api, cpc, self_papers, issued, aggVars, runVars>>

\* unique_papers = self.remove_duplicates(all_papers); self.papers = unique_papers
CollectDedup ==
    /\ cpc = "run"
    /\ fpc = "idle"
    /\ qi > Len(Catalog)
    /\ papers' = coll_all_papers
    /\ unique_papers' = RemoveDuplicates(coll_all_papers)
    /\ self_papers' = RemoveDuplicates(coll_all_papers)
    /\ dpc' = "done"
    /\ cpc' = "done"
    /\ UNCHANGED <<unique_again, fetchVars, qi, coll_all_papers, issued, returned, failed, aggVars, runVars>>

CollectNext ==
    CollectCall \/ CollectPage \/ CollectAbstract \/ CollectExtend \/ CollectDedup

SpecCollect == CollectInit /\ [][CollectNext]_vars

----------------------------------------------------------------------------
(* save_annual_summary_csvs, create_publication_trend_chart and the growth   *)
(* column of create_research_summary_report.  The averages and percentages   *)
(* of a row are rounded quotients of the columns modelled here and are left  *)
(* out.                                                                      *)

MaxPapers == 3

\* the papers of self.papers as the aggregation reads them: year (one before
\* the window, two inside it with a gap between them), category ('unknown' is
\* what paper.get('category', 'unknown') yields for an untagged paper),
\* citation_count and open_access; and one paper whose year is null
AggYears == { Some(2019), Some(2021), Some(2023) }

AggCategories == {"core", "related", "unknown"}

NullYearPaper ==
    [year |-> None, category |-> "core", citation_count |-> 3, open_access |-> TRUE]

AggPaper ==
    [year : AggYears, category : AggCategories, citation_count : {0}, open_access : {FALSE}]
        \cup [year : AggYears, category : AggCategories, citation_count : {3},
              open_access : {TRUE}]
        \cup {NullYearPaper}

AggInputs == UNION { [1..n -> AggPaper] : n \in 0..MaxPapers }

AggAcceptedAnyYear(paper) == Truthy(paper.year)

\* if year and isinstance(year, (int, float)) and 2020 <= year <= 2025
AggAccepted(paper) ==
    Truthy(paper.year) /\ 2020 <= paper.year[1] /\ paper.year[1] <= 2025

\* ascending order of a finite set of integers: sorted(annual_data.keys())
RECURSIVE Sorted(_)
Sorted(S) ==
    IF S = {} THEN <<>>
    ELSE LET m == CHOOSE x \in S : \A y \in S : x <= y
         IN  <<m>> \o Sorted(S \ {m})

\* the keys of annual_data: annual_data[year]['all'].append(paper) creates the
\* entry of the year of every accepted paper, whatever its category
AnnualYears(ps) == { ps[i].year[1] : i \in { j \in 1..Len(ps) : AggAccepted(ps[j]) } }

\* annual_data[year]: the accepted papers of the year, all and by category
YearData(ps, year) ==
    LET ofYear(p) == AggAccepted(p) /\ p.year[1] = year
    IN  [all     |-> SelectSeq(ps, ofYear),
         core    |-> SelectSeq(ps, LAMBDA p : ofYear(p) /\ p.category = "core"),
         related |-> SelectSeq(ps, LAMBDA p : ofYear(p) /\ p.category = "related")]

\* sum(p.get('citation_count', 0) for p in ...)
RECURSIVE SumCitations(_)
SumCitations(ps) ==
    IF ps = <<>> THEN 0 ELSE Head(ps).citation_count + SumCitations(Tail(ps))

\* sum(1 for p in ... if p.get('open_access', False))
CountOpenAccess(ps) == Len(SelectSeq(ps, LAMBDA p : p.open_access))

TotalCountOfAll(year_data) == Len(year_data.all)

\* total_count = core_count + related_count
TotalCount(year_data) == Len(year_data.core) + Len(year_data.related)

\* the row appended to summary_stats for one year
SummaryRow(ps, year) ==
    LET year_data == YearData(ps, year)
        core_citations == SumCitations(year_data.core)
        related_citations == SumCitations(year_data.related)
        core_oa == CountOpenAccess(year_data.core)
        related_oa == CountOpenAccess(year_data.related)
    IN  [year |-> year,
         core_papers |-> Len(year_data.core),
         related_papers |-> Len(year_data.related),
         total_papers |-> TotalCount(year_data),
         core_citations |-> core_citations,
         related_citations |-> related_citations,
         total_citations |-> core_citations + related_citations,
         core_open_access |-> core_oa,
         related_open_access |-> related_oa,
         total_open_access |-> core_oa + related_oa]

\* for year in sorted(annual_data.keys()): summary_stats.append({...})
SummaryStats(ps) ==
    LET years == Sorted(AnnualYears(ps))
    IN  [i \in 1..Len(years) |-> SummaryRow(ps, years[i])]

\* year_count_matrix.append({...})
YearCountMatrix(ps) ==
    LET years == Sorted(AnnualYears(ps))
    IN  [i \in 1..Len(years) |->
            LET year_data == YearData(ps, years[i])
            IN  [year |-> years[i],
                 core_count |-> Len(year_data.core),
                 related_count |-> Len(year_data.related),
                 total_count |-> Len(year_data.core) + Len(year_data.related)]]

\* a growth percentage is the exact quotient num / den; the number 0 is 0 / 1,
\* and den = 0 stands for the result of a division by zero
ZeroGrowth == [num |-> 0, den |-> 1]

GrowthUnguarded(prev_total, curr_total) ==
    [num |-> (curr_total - prev_total) * 100, den |-> prev_total]

\* growth = ((curr_total - prev_total) / prev_total * 100) if prev_total > 0 else 0
Growth(prev_total, curr_total) ==
    IF prev_total > 0
    THEN [num |-> (curr_total - prev_total) * 100, den |-> prev_total]
    ELSE ZeroGrowth

\* for i in range(1, len(summary_df)): the growth printed for each row but the first
SummaryGrowth(rows) ==
    [i \in 1..(IF Len(rows) > 1 THEN Len(rows) - 1 ELSE 0) |->
        Growth(rows[i].total_papers, rows[i + 1].total_papers)]

\* create_publication_trend_chart: annual_data[year][category] += 1 creates the
\* entry of a year only for an accepted paper of category core or related
ChartYears(ps) ==
    { ps[i].year[1] : i \in { j \in 1..Len(ps) :
                                AggAccepted(ps[j]) /\ ps[j].category \in {"core", "related"} } }

\* if total_counts[i-1] > 0: growth = ... else: growth_rates.append(0)
ChartGrowth(prev_total, curr_total) ==
    IF prev_total > 0
    THEN [num |-> (curr_total - prev_total) * 100, den |-> prev_total]
    ELSE ZeroGrowth

\* years, core_counts, related_counts, total_counts and growth_rates of the chart
TrendChart(ps) ==
    LET years == Sorted(ChartYears(ps))
        core_counts == [i \in 1..Len(years) |-> Len(YearData(ps, years[i]).core)]
        related_counts == [i \in 1..Len(years) |-> Len(YearData(ps, years[i]).related)]
        total_counts == [i \in 1..Len(years) |-> core_counts[i] + related_counts[i]]
    IN  [years |-> years,
         core_counts |-> core_counts,
         related_counts |-> related_counts,
         total_counts |-> total_counts,
         growth_rates |->
             [i \in 1..(IF Len(years) > 1 THEN Len(years) - 1 ELSE 0) |->
                 ChartGrowth(total_counts[i], total_counts[i + 1])]]

\* growth = ((row['total_papers'] - prev_total) / prev_total * 100) if prev_total > 0 else 0
ReportRowGrowth(prev_total, curr_total) ==
    IF prev_total > 0
    THEN [num |-> (curr_total - prev_total) * 100, den |-> prev_total]
    ELSE ZeroGrowth

\* for i, row in summary_df.iterrows(): if i > 0: ...
ReportGrowth(rows) ==
    [i \in 1..(IF Len(rows) > 1 THEN Len(rows) - 1 ELSE 0) |->
        ReportRowGrowth(rows[i].total_papers, rows[i + 1].total_papers)]

AggInit ==
    /\ papers = <<>>
    /\ unique_papers = <<>>
    /\ unique_again = <<>>
    /\ dpc = "off"
    /\ FetchIdle
    /\ api = "none"
    /\ cpc = "off"
    /\ qi = 1
    /\ coll_all_papers = <<>>
    /\ self_papers \in AggInputs
    /\ issued = <<>>
    /\ returned = <<>>
    /\ failed = {}
    /\ apc = "start"
    /\ summary_stats = <<>>
    /\ year_count_matrix = <<>>
    /\ summary_growth = <<>>
    /\ chart = <<>>
    /\ report_growth = <<>>
    /\ RunOff

\* collector.create_publication_trend_chart(), as run_complete_analysis calls it
\* before the summaries
CreatePublicationTrendChart ==
    /\ apc = "start"
    /\ self_papers # <<>>
    /\ chart' = <<TrendChart(self_papers)>>
    /\ apc' = "charted"
    /\ UNCHANGED <<dedupVars, fetchVars, collectVars, summary_stats, year_count_matrix,
                   summary_growth, report_growth, runVars>>

\* collector.save_annual_summary_csvs()
SaveAnnualSummaryCsvs ==
    /\ apc \in {"start", "charted"}
    /\ self_papers # <<>>
    /\ summary_stats' = SummaryStats(self_papers)
    /\ year_count_matrix' = YearCountMatrix(self_papers)
    /\ summary_growth' = SummaryGrowth(summary_stats')
    /\ apc' = "saved"
    /\ UNCHANGED <<dedupVars, fetchVars, collectVars, chart, report_growth, runVars>>

\* create_research_summary_report: the rows written after save_annual_summary_csvs
WriteReport ==
    /\ apc = "saved"
    /\ report_growth' = ReportGrowth(summary_stats)
    /\ apc' = "reported"
    /\ UNCHANGED <<dedupVars, fetchVars, collectVars, summary_stats, year_count_matrix,
                   summary_growth, chart, runVars>>

AggNext == CreatePublicationTrendChart \/ SaveAnnualSummaryCsvs \/ WriteReport

SpecAgg == AggInit /\ [][AggNext]_vars

----------------------------------------------------------------------------
(* The run modes of __main__ and the presentation methods they call *)

\* the choices 1 to 4 of __main__, any other choice, and a caller that calls the
\* presentation methods of a collector itself
Modes == {"complete", "report", "basic", "test", "invalid", "direct"}

\* the calls a mode makes once it has papers, in order: run_complete_analysis,
\* create_research_summary_report, run_openalex_collection; quick_openalex_test
\* and the else branch of __main__ call none
Script(m) ==
    IF m = "complete"
    THEN << "create_visualization", "create_publication_trend_chart", "save_to_csv",
            "save_annual_summary_csvs" >>
    ELSE IF m = "report" THEN << "save_annual_summary_csvs", "write_report" >>
    ELSE IF m = "basic" THEN << "create_visualization", "save_to_csv" >>
    ELSE IF m = "direct"
    THEN << "create_visualization", "save_to_csv", "save_annual_summary_csvs",
            "create_publication_trend_chart" >>
    ELSE << >>

\* what collection may end with: papers of the window, tagged core or related
RunPaper ==
    [year : {Some(2021), Some(2023)}, category : {"core", "related"},
     citation_count : {0}, open_access : {FALSE}]

RunInputs == UNION { [1..n -> RunPaper] : n \in 0..MaxPapers }

\* if not papers: return (run_complete_analysis, create_research_summary_report),
\* and the else of `if papers:` (run_openalex_collection)
NoPapers(ps) == ps = <<>>

NoDataNever(ps) == FALSE

\* if not self.papers: return, the first statement of every presentation method
NoData(ps) == ps = <<>>

RunInit ==
    /\ papers = <<>>
    /\ unique_papers = <<>>
    /\ unique_again = <<>>
    /\ dpc = "off"
    /\ FetchIdle
    /\ api = "none"
    /\ cpc = "off"
    /\ qi = 1
    /\ coll_all_papers = <<>>
    /\ self_papers \in RunInputs
    /\ issued = <<>>
    /\ returned = <<>>
    /\ failed = {}
    /\ AggOff
    /\ mode \in Modes
    /\ rpc = "collected"
    /\ step = 0
    /\ files = {}

\* papers = collector.collect_all_papers() has returned: the test for no papers
RunStart ==
    /\ rpc = "collected"
    /\ IF mode \in {"complete", "report", "basic"} /\ NoPapers(self_papers)
       THEN rpc' = "returned" /\ step' = step
       ELSE rpc' = "run" /\ step' = 1
    /\ UNCHANGED <<dedupVars, fetchVars, collectVars, aggVars, mode, files>>

\* the call at the position of the run is the call of this method
Calls(method) ==
    /\ rpc = "run"
    /\ step <= Len(Script(mode))
    /\ Script(mode)[step] = method
    /\ step' = step + 1

\* collector.create_visualization()
CreateVisualization ==
    /\ Calls("create_visualization")
    /\ files' = IF NoData(self_papers) THEN files
                ELSE files \cup {"openalex_energy_hub_analysis.png"}
    /\ UNCHANGED <<dedupVars, fetchVars, collectVars, aggVars, mode, rpc>>

\* collector.save_to_csv()
SaveToCsv ==
    /\ Calls("save_to_csv")
    /\ files' = IF NoData(self_papers) THEN files
                ELSE files \cup {"openalex_energy_hub_papers.csv"}
    /\ UNCHANGED <<dedupVars, fetchVars, collectVars, aggVars, mode, rpc>>

\* collector.create_publication_trend_chart()
RunTrendChart ==
    /\ Calls("create_publication_trend_chart")
    /\ IF NoData(self_papers)
       THEN UNCHANGED <<chart, files>>
       ELSE /\ chart' = <<TrendChart(self_papers)>>
            /\ files' = files \cup {"energy_hub_publication_trends.png"}
    /\ UNCHANGED <<dedupVars, fetchVars, collectVars, apc, summary_stats, year_count_matrix,
                   summary_growth, report_growth, mode, rpc>>

\* collector.save_annual_summary_csvs()
RunAnnualSummary ==
    /\ Calls("save_annual_summary_csvs")
    /\ IF NoData(self_papers)
       THEN UNCHANGED <<summary_stats, year_count_matrix, summary_growth, files>>
       ELSE /\ summary_stats' = SummaryStats(self_papers)
            /\ year_count_matrix' = YearCountMatrix(self_papers)
            /\ summary_growth' = SummaryGrowth(summary_stats')
            /\ files' = files \cup { "energy_hub_annual_summary.csv",
                                      "energy_hub_core_papers_by_year.csv",
                                      "energy_hub_core_plus_related_papers_by_year.csv",
                                      "energy_hub_paper_counts_by_year.csv" }
    /\ UNCHANGED <<dedupVars, fetchVars, collectVars, apc, chart, report_growth, mode, rpc>>

\* create_research_summary_report: with open(report_filename, 'w') as f: ...
RunWriteReport ==
    /\ Calls("write_report")
    /\ report_growth' = ReportGrowth(summary_stats)
    /\ files' = files \cup {"energy_hub_research_summary_report.txt"}
    /\ UNCHANGED <<dedupVars, fetchVars, collectVars, apc, summary_stats, year_count_matrix,
                   summary_growth, chart, mode, rpc>>

\* the mode returns after its last call
RunReturn ==
    /\ rpc = "run"
    /\ step > Len(Script(mode))
    /\ rpc' = "returned"
    /\ UNCHANGED <<dedupVars, fetchVars, collectVars, aggVars, mode, step, files>>

RunNext ==
    \/ RunStart
    \/ CreateVisualization
    \/ SaveToCsv
    \/ RunTrendChart
    \/ RunAnnualSummary
    \/ RunWriteReport
    \/ RunReturn

SpecRun == RunInit /\ [][RunNext]_vars

----------------------------------------------------------------------------
(* Claims about remove_duplicates *)

\* C1: the output of remove_duplicates holds no two records that share the
\* same non-empty id (two records with one id and different titles are
\* merged into the first).
C1_NoSharedId ==
    dpc # "init" =>
        \A i, j \in 1..Len(unique_papers) :
            (i < j /\ unique_papers[i].id # "") =>
                unique_papers[i].id # unique_papers[j].id

\* C2: among the records of the output that have an empty id, no two share
\* the same normalized title, whatever their other fields are.
C2_NoSharedTitle ==
    dpc # "init" =>
        \A i, j \in 1..Len(unique_papers) :
            (i < j /\ unique_papers[i].id = "" /\ unique_papers[j].id = "") =>
                NormalizeTitle(unique_papers[i].title)
                    # NormalizeTitle(unique_papers[j].title)

\* two id-less input records with different raw titles and years and one
\* normalized title, of which the output holds exactly the first
C2_Witness ==
    /\ dpc = "done"
    /\ Len(papers) = 2
    /\ papers[1].id = "" /\ papers[2].id = ""
    /\ papers[1].title # papers[2].title
    /\ papers[1].year # papers[2].year
    /\ NormalizeTitle(papers[1].title) = NormalizeTitle(papers[2].title)
    /\ unique_papers = <<papers[1]>>

\* C3: remove_duplicates is idempotent: applied to its own output it returns
\* that output, same records in the same order.
C3_Idempotent == dpc = "twice" => unique_again = unique_papers

\* a run in which the first call dropped a record and kept several
C3_Witness ==
    /\ dpc = "twice"
    /\ Len(unique_papers) >= 2
    /\ Len(unique_papers) < Len(papers)
    /\ unique_again = unique_papers

\* the records of the end-to-end example of the specification
C4_Input ==
    << [id |-> "A", title |-> <<"a">>, year |-> 2021],
       [id |-> "A", title |-> <<"b">>, year |-> 2021],
       [id |-> "",  title |-> <<"a">>, year |-> 2022] >>

\* C4: an id-less record whose normalized title equals that of an earlier
\* kept record is dropped, also when the earlier record was kept through its
\* id; for the example input the output is exactly the first record.
C4_TitleOfIdKept ==
    dpc # "init" =>
        /\ \A i, j \in 1..Len(unique_papers) :
               (i < j /\ unique_papers[j].id = "") =>
                   NormalizeTitle(unique_papers[i].title)
                       # NormalizeTitle(unique_papers[j].title)
        /\ papers = C4_Input => unique_papers = <<C4_Input[1]>>

\* the reference pass over the first k input records: the records kept so far
\* and the two sets of what was seen
RECURSIVE C12_Pass(_)
C12_Pass(k) ==
    IF k = 0 THEN [kept |-> <<>>, ids |-> {}, titles |-> {}]
    ELSE LET before == C12_Pass(k - 1)
             record == papers[k]
             ntitle == NormalizeTitle(record.title)
         IN  IF record.id # "" /\ record.id \notin before.ids
             THEN [kept |-> Append(before.kept, record),
                   ids |-> before.ids \cup {record.id}, titles |-> before.titles]
             ELSE IF ntitle # <<>> /\ ntitle \notin before.titles
             THEN [kept |-> Append(before.kept, record),
                   ids |-> before.ids, titles |-> before.titles \cup {ntitle}]
             ELSE before

\* out is a subsequence of in, in the order of in
C12_Subsequence(out, in) ==
    \E f \in [1..Len(out) -> 1..Len(in)] :
        /\ \A i, j \in 1..Len(out) : i < j => f[i] < f[j]
        /\ \A i \in 1..Len(out) : out[i] = in[f[i]]

\* C12: the output of remove_duplicates is what the reference pass with the two
\* sets seen-ids and seen-titles keeps; it is a subsequence of the input in
\* input order; and the first input record that carries a given non-empty id
\* is the first record of the output with that id.
C12_ReferencePass ==
    dpc # "init" =>
        /\ unique_papers = C12_Pass(Len(papers)).kept
        /\ C12_Subsequence(unique_papers, papers)
        /\ \A i \in 1..Len(papers) :
               (/\ papers[i].id # ""
                /\ \A h \in 1..(i - 1) : papers[h].id # papers[i].id)
               => \E j \in 1..Len(unique_papers) :
                      /\ unique_papers[j] = papers[i]
                      /\ \A h \in 1..(j - 1) : unique_papers[h].id # papers[i].id

\* three records of one id: the first kept through the id, the second through
\* its unseen title, the third dropped
C12_Witness ==
    /\ dpc = "done"
    /\ Len(papers) = 3
    /\ papers[1].id # "" /\ papers[2].id = papers[1].id /\ papers[3].id = papers[1].id
    /\ papers[1] # papers[2]
    /\ unique_papers = <<papers[1], papers[2]>>

\* C19: no record of the output of remove_duplicates has an empty id and an
\* empty normalized title; such a record is dropped also when it is the first
\* of the input and duplicates nothing.
C19_NoEmptyKey ==
    dpc # "init" =>
        /\ \A j \in 1..Len(unique_papers) :
               unique_papers[j].id # "" \/ NormalizeTitle(unique_papers[j].title) # <<>>
        /\ \A i \in 1..Len(papers) :
               (papers[i].id = "" /\ NormalizeTitle(papers[i].title) = <<>>)
               => \A j \in 1..Len(unique_papers) : unique_papers[j] # papers[i]

\* an input that starts with an id-less record of a blank title, which is
\* dropped while the records after it are kept
C19_Witness ==
    /\ dpc = "done"
    /\ Len(papers) = 3
    /\ papers[1].id = "" /\ papers[1].title = <<" ">>
    /\ unique_papers = <<papers[2], papers[3]>>

----------------------------------------------------------------------------
(* Claims about search_works and search_by_abstract *)

\* C5: every paper returned by search_works or search_by_abstract, for any
\* answers of the endpoint and any year_start/year_end, has a non-null year
\* with 2020 <= year <= 2025, also when the filter sent was broader.
C5_YearInWindow ==
    \A i \in 1..Len(all_papers) :
        /\ all_papers[i].year # None
        /\ TargetStart <= all_papers[i].year[1]
        /\ all_papers[i].year[1] <= TargetEnd

\* a returned title search with the filter 2004-2025, to which the endpoint
\* served a work of a year inside that filter and before 2020, and which
\* returned papers
C5_Witness ==
    /\ fpc = "returned"
    /\ strategy = "title"
    /\ year_range = <<2004, 2025>>
    /\ all_papers # <<>>
    /\ \E k \in 1..Len(served) :
           /\ served[k].kind = "http" /\ served[k].status = 200
           /\ \E n \in 1..Len(served[k].results) :
                  LET y == served[k].results[n].publication_year
                  IN  y # None /\ year_range[1] <= y[1] /\ y[1] < TargetStart

\* C6: one call of search_works issues at most 10 page requests, whatever the
\* endpoint answers, has returned once the tenth is answered, and so returns
\* at most 2000 papers when a page holds at most 200 records.
C6_SafetyCap ==
    strategy = "title" =>
        /\ Len(requests) <= MaxPages
        /\ Len(requests) = MaxPages => fpc = "returned"
        /\ (\A k \in 1..Len(served) : Len(served[k].results) <= PerPage)
               => /\ Len(all_papers) <= PerPage * Len(requests)
                  /\ Len(all_papers) <= 2000

\* a call that the cap stopped: ten requests, each answered by a non-empty
\* page, the last one still reporting a million matches
C6_Witness ==
    /\ fpc = "returned"
    /\ strategy = "title"
    /\ Len(requests) = MaxPages
    /\ \A k \in 1..MaxPages :
           served[k].kind = "http" /\ served[k].status = 200 /\ served[k].results # <<>>
    /\ last_count = Some(1000000)

\* the works of a page whose year is in the target window, as <<id, title, year>>
C7_InWindow(results) ==
    LET kept == SelectSeq(results,
                    LAMBDA w : /\ w.publication_year # None
                               /\ w.publication_year[1] >= 2020
                               /\ w.publication_year[1] <= 2025)
    IN  [i \in 1..Len(kept) |->
            <<IF kept[i].id.st = "val" THEN kept[i].id.v ELSE "",
              IF kept[i].display_name.st = "val" THEN kept[i].display_name.v ELSE <<>>,
              kept[i].publication_year>>]

RECURSIVE C7_InWindowUpTo(_)
C7_InWindowUpTo(k) ==
    IF k = 0 THEN <<>> ELSE C7_InWindowUpTo(k - 1) \o C7_InWindow(served[k].results)

\* C7: when the request of page k of search_works is answered by a non-200
\* status or raises, the call issues no further request (pages 1..k were
\* requested once each, and the call has returned) and returns exactly the
\* in-window papers of pages 1..k-1.
C7_FailureAborts ==
    (/\ strategy = "title"
     /\ served # <<>>
     /\ LET r == served[Len(served)] IN r.kind = "exception" \/ r.status # 200)
    => /\ fpc = "returned"
       /\ requests = [k \in 1..Len(served) |-> k]
       /\ [i \in 1..Len(all_papers) |->
              <<all_papers[i].id, all_papers[i].title, all_papers[i].year>>]
          = C7_InWindowUpTo(Len(served) - 1)

\* a call whose third request failed with a status whose body held results,
\* after two pages that yielded papers
C7_Witness ==
    /\ fpc = "returned"
    /\ strategy = "title"
    /\ Len(served) = 3
    /\ served[3].kind = "http" /\ served[3].status = 500 /\ served[3].results # <<>>
    /\ Len(all_papers) = 2

\* the works of a page whose year is in the target window
C11_InWindow(results) ==
    SelectSeq(results, LAMBDA w : /\ w.publication_year # None
                                  /\ w.publication_year[1] >= 2020
                                  /\ w.publication_year[1] <= 2025)

\* the in-window works of the pages 1..k that were answered with status 200
RECURSIVE C11_WorksUpTo(_)
C11_WorksUpTo(k) ==
    IF k = 0 THEN <<>>
    ELSE C11_WorksUpTo(k - 1)
            \o (IF served[k].kind = "http" /\ served[k].status = 200
                THEN C11_InWindow(served[k].results) ELSE <<>>)

\* a key that is not there with a value: absent, or null
C11_Missing(field) == field.st # "val"

\* the paper has the default of every field that is missing in the work
C11_Defaulted(work, paper) ==
    /\ C11_Missing(work.id) => paper.id = ""
    /\ C11_Missing(work.display_name) => paper.title = <<>>
    /\ C11_Missing(work.cited_by_count) => paper.citation_count = 0
    /\ (C11_Missing(work.open_access) \/ C11_Missing(work.open_access.v.is_oa))
           => paper.open_access = FALSE
    /\ (\/ C11_Missing(work.primary_location)
        \/ C11_Missing(work.primary_location.v.source)
        \/ C11_Missing(work.primary_location.v.source.v.display_name))
           => paper.venue = ""
    /\ (\/ C11_Missing(work.authorships)
        \/ \A i \in 1..Len(work.authorships.v) : C11_Missing(work.authorships.v[i].author))
           => paper.authors = <<>>

\* C11: in search_works, every record of every page answered with status 200,
\* whatever optional or nested field it lacks, is turned into a paper with the
\* defaults of the fields it lacks (the in-window ones are the papers of the
\* call, in order), and the call goes on to the next record and the next page:
\* it returns only after a failed request, an empty page, the last page by the
\* reported count, or the tenth page.
C11_EveryRecordNormalized ==
    (strategy = "title" /\ fpc \in {"request", "returned"})
    => LET works == C11_WorksUpTo(Len(served))
       IN  /\ Len(all_papers) = Len(works)
           /\ \A i \in 1..Len(all_papers) : C11_Defaulted(works[i], all_papers[i])
           /\ fpc = "returned"
                  => LET r == served[Len(served)]
                     IN  \/ r.kind = "exception"
                         \/ r.status # 200
                         \/ r.results = <<>>
                         \/ Len(served) * 200 >= CountOf(last_count)
                         \/ Len(served) = 10

\* request k of the call was answered with status 200 and a non-empty page
C13_Succeeded(k) ==
    served[k].kind = "http" /\ served[k].status = 200 /\ served[k].results # <<>>

\* min(10, ceil(c / 200))
C13_Expected(c) ==
    LET pages == (c + 199) \div 200 IN IF pages < 10 THEN pages ELSE 10

\* C13: search_works requests the pages 1, 2, 3, ... in this order, without
\* gap or repeat; it is about to request page p+1 only if page p was answered
\* with status 200 and a non-empty page, p * 200 is below the total count that
\* page p reported (none reported counts as 0), and p < 10; and a call whose
\* requests all succeeded with non-empty pages that all reported one total
\* c >= 1 has issued exactly min(10, ceil(c/200)) requests when it returns.
C13_Pagination ==
    (strategy = "title" /\ fpc # "idle")
    => /\ requests = [k \in 1..Len(requests) |-> k]
       /\ Len(served) = Len(requests)
       /\ \A k \in 1..(Len(requests) - 1) : C13_Succeeded(k)
       /\ fpc = "request"
              => /\ page = Len(requests) + 1
                 /\ page > 1
                        => /\ C13_Succeeded(page - 1)
                           /\ (page - 1) * 200 < CountOf(last_count)
                           /\ page - 1 < 10
       /\ (/\ fpc = "returned"
           /\ \A k \in 1..Len(requests) : C13_Succeeded(k)
           /\ ~count_varied
           /\ CountOf(last_count) >= 1)
              => Len(requests) = C13_Expected(CountOf(last_count))

----------------------------------------------------------------------------
(* Claims about collect_all_papers *)

RECURSIVE C8_Concat(_, _)
C8_Concat(lists, n) == IF n = 0 THEN <<>> ELSE C8_Concat(lists, n - 1) \o lists[n]

\* C8: whatever requests fail, collect_all_papers issues all 13 catalog
\* queries (4 core title, 6 related title, 3 abstract), each exactly once and
\* in catalog order, and what the queries returned all reaches the
\* deduplicator.
C8_FailureIsolation ==
    /\ Len(Catalog) = 13
    /\ issued = [k \in 1..Len(issued) |-> k]
    /\ Len(returned) \in {Len(issued), Len(issued) - 1}
    /\ coll_all_papers = C8_Concat(returned, Len(returned))
    /\ cpc = "done" =>
           /\ Len(issued) = 13
           /\ Len(returned) = 13
           /\ papers = C8_Concat(returned, 13)
           /\ \A q \in 1..13 : \A n \in 1..Len(returned[q]) :
                  /\ returned[q][n].search_term = Catalog[q].term
                  /\ returned[q][n].category = Catalog[q].category

\* a finished run in which a core title query, a related title query and an
\* abstract query failed and the others did not
C8_Witness ==
    /\ cpc = "done"
    /\ failed = {2, 7, 12}
    /\ Len(coll_all_papers) = 10
    /\ self_papers # <<>>

\* C16: in a run of collect_all_papers, a request that is not the first of the
\* run is issued only after a pause since the request before it: the short
\* pause (0.1 s) when that was an earlier page of the same query, the long
\* pause (1 s) when it was the last request of the query before.
C16_Politeness ==
    [][ (cpc = "run" /\ served' # served /\ served' # <<>>)
        => /\ requests # <<>> => pauses = <<ShortPause>>
           /\ (requests = <<>> /\ Len(issued) > 1)
                  => (pauses # <<>> /\ pauses[Len(pauses)] = LongPause) ]_vars

\* the first query took two pages and the second query has issued a request
C16_Witness ==
    /\ cpc = "run"
    /\ Len(returned) = 1
    /\ Len(returned[1]) = 2
    /\ Len(issued) = 2
    /\ Len(requests) = 1

RECURSIVE C17_Concat(_)
C17_Concat(n) == IF n = 0 THEN <<>> ELSE C17_Concat(n - 1) \o returned[n]

\* the strategy and the category of the k-th search of a run: 4 core and 6
\* related title searches, then 3 abstract searches tagged related
C17_StrategyOf(k) == IF k <= 10 THEN "title" ELSE "abstract"

C17_CategoryOf(k) == IF k <= 4 THEN "core" ELSE "related"

\* the searches run one at a time in catalog order, and nothing is
\* deduplicated or assigned to self.papers before the last has returned
C17_InOrder ==
    /\ issued = [k \in 1..Len(issued) |-> k]
    /\ Len(returned) = (IF fpc = "idle" THEN Len(issued) ELSE Len(issued) - 1)
    /\ fpc # "idle"
           => /\ strategy = C17_StrategyOf(Len(issued))
              /\ category = C17_CategoryOf(Len(issued))
    /\ \A k \in 1..Len(returned) : \A i \in 1..Len(returned[k]) :
           /\ returned[k][i].category = C17_CategoryOf(k)
           /\ returned[k][i].source
                  = (IF C17_StrategyOf(k) = "title" THEN "openalex" ELSE "openalex_abstract")
    /\ cpc = "run" => (dpc = "off" /\ self_papers = <<>> /\ unique_papers = <<>>)
    /\ cpc = "done"
           => /\ Len(returned) = 13
              /\ papers = C17_Concat(13)
              /\ unique_papers = C12_Pass(Len(papers)).kept
              /\ self_papers = unique_papers

\* C17: collect_all_papers runs its searches strictly one after the other in
\* catalog order, every title search (core, then related) returning before the
\* first abstract search starts; the papers of the abstract searches are all
\* tagged 'related'; remove_duplicates runs exactly once, after the last
\* search has returned, on the concatenation of what the searches returned in
\* catalog order; and self.papers is assigned only then, its result.
C17_Sequential ==
    /\ []C17_InOrder
    /\ [][ (dpc' # dpc \/ self_papers' # self_papers \/ unique_papers' # unique_papers)
            => (cpc = "run" /\ cpc' = "done" /\ fpc = "idle" /\ Len(returned) = 13) ]_vars

\* a finished run in which core and related title searches and an abstract
\* search returned papers, and the deduplicator dropped some of them
C17_Witness ==
    /\ cpc = "done"
    /\ returned[1] # <<>>
    /\ returned[5] # <<>>
    /\ returned[11] # <<>>
    /\ returned[11][1].category = "related"
    /\ Len(papers) >= 3
    /\ Len(self_papers) < Len(papers)
    /\ self_papers # <<>>

----------------------------------------------------------------------------
(* Claims about the annual summary *)

\* C9: in every row of the annual summary total_papers = core_papers +
\* related_papers and total_citations = core_citations + related_citations,
\* and in every row of the year/count matrix total_count = core_count +
\* related_count.
C9_TotalsAdd ==
    /\ \A i \in 1..Len(summary_stats) :
           /\ summary_stats[i].total_papers
                  = summary_stats[i].core_papers + summary_stats[i].related_papers
           /\ summary_stats[i].total_citations
                  = summary_stats[i].core_citations + summary_stats[i].related_citations
    /\ \A i \in 1..Len(year_count_matrix) :
           year_count_matrix[i].total_count
               = year_count_matrix[i].core_count + year_count_matrix[i].related_count

\* a summary with a row of a year that has a cited core paper, a related
\* paper and a paper of another category
C9_Witness ==
    /\ apc = "saved"
    /\ Len(self_papers) = 3
    /\ \A i \in 1..3 : self_papers[i].year = Some(2021)
    /\ { self_papers[i].category : i \in 1..3 } = AggCategories
    /\ Len(summary_stats) = 1
    /\ summary_stats[1].total_papers = 2
    /\ summary_stats[1].total_citations > 0

\* C10: whenever the previous row's combined total is 0, the growth reported
\* for a row is exactly 0 (not the result of a division by zero), in the
\* printout of the annual summary, in the trend chart and in the text report.
C10_GrowthOfZero ==
    /\ \A i \in 1..Len(summary_growth) :
           summary_stats[i].total_papers = 0 => summary_growth[i] = ZeroGrowth
    /\ \A c \in 1..Len(chart) : \A i \in 1..Len(chart[c].growth_rates) :
           chart[c].total_counts[i] = 0 => chart[c].growth_rates[i] = ZeroGrowth
    /\ \A i \in 1..Len(report_growth) :
           summary_stats[i].total_papers = 0 => report_growth[i] = ZeroGrowth

\* a report over a summary whose first row has a combined total of 0 (its
\* year has only papers of another category) and whose second row has papers
C10_Witness ==
    /\ apc = "reported"
    /\ Len(summary_stats) >= 2
    /\ summary_stats[1].total_papers = 0
    /\ summary_stats[2].total_papers > 0
    /\ summary_growth[1] = ZeroGrowth
    /\ report_growth[1] = ZeroGrowth

\* the filtered papers: year in [2020, 2025] and category core or related
C14_Filtered(paper) ==
    /\ paper.year # None
    /\ paper.year[1] >= 2020 /\ paper.year[1] <= 2025
    /\ paper.category \in {"core", "related"}

C14_FilteredYears ==
    { self_papers[i].year[1] : i \in { j \in 1..Len(self_papers) : C14_Filtered(self_papers[j]) } }

\* C14: the annual summary has exactly one row for every year of a filtered
\* paper (year in [2020, 2025], category core or related) and no row of another
\* year, in strictly ascending order of the year; a paper of another category
\* brings about no row.
C14_RowsOfFilteredYears ==
    apc \in {"saved", "reported"} =>
        /\ { summary_stats[i].year : i \in 1..Len(summary_stats) } = C14_FilteredYears
        /\ \A i, j \in 1..Len(summary_stats) :
               i < j => summary_stats[i].year < summary_stats[j].year

\* the combined core + related total of a calendar year
C15_Total(year) ==
    Cardinality({ i \in 1..Len(self_papers) :
                    C14_Filtered(self_papers[i]) /\ self_papers[i].year[1] = year })

\* (total(Y) - total(Y-1)) / total(Y-1) * 100 as a quotient, 0 when total(Y-1) is 0
C15_Expected(year) ==
    IF C15_Total(year - 1) > 0
    THEN [num |-> (C15_Total(year) - C15_Total(year - 1)) * 100, den |-> C15_Total(year - 1)]
    ELSE [num |-> 0, den |-> 1]

\* C15: the growth reported for a year Y other than the first, in the printout
\* of the annual summary and in the trend chart, is the growth of the combined
\* total from calendar year Y-1 to Y, also when the set has no paper of Y-1.
C15_GrowthOverCalendarYear ==
    /\ \A i \in 1..Len(summary_growth) :
           summary_growth[i] = C15_Expected(summary_stats[i + 1].year)
    /\ \A c \in 1..Len(chart) : \A i \in 1..Len(chart[c].growth_rates) :
           chart[c].growth_rates[i] = C15_Expected(chart[c].years[i + 1])

\* the sum of total_papers over the first n rows
RECURSIVE C20_SumTotals(_)
C20_SumTotals(n) ==
    IF n = 0 THEN 0 ELSE C20_SumTotals(n - 1) + summary_stats[n].total_papers

\* the number of papers of a year and a category in the set
C20_Count(year, cat) ==
    Cardinality({ i \in 1..Len(self_papers) :
                    /\ self_papers[i].year = <<year>>
                    /\ self_papers[i].category = cat })

\* C20: the annual summary conserves papers: every paper with a year in
\* [2020, 2025] and category core or related is counted in the row of its year
\* and the column of its category and nowhere else, so the total_papers of all
\* rows add up to the number of such papers; and in every row each open-access
\* count is at most the paper count beside it.
C20_Conservation ==
    apc \in {"saved", "reported"} =>
        /\ \A i \in 1..Len(self_papers) :
               C14_Filtered(self_papers[i])
               => Cardinality({ r \in 1..Len(summary_stats) :
                                  summary_stats[r].year = self_papers[i].year[1] }) = 1
        /\ \A r \in 1..Len(summary_stats) :
               LET row == summary_stats[r]
               IN  /\ row.year >= 2020 /\ row.year <= 2025
                   /\ row.core_papers = C20_Count(row.year, "core")
                   /\ row.related_papers = C20_Count(row.year, "related")
                   /\ row.core_open_access <= row.core_papers
                   /\ row.related_open_access <= row.related_papers
                   /\ row.total_open_access <= row.total_papers
        /\ C20_SumTotals(Len(summary_stats))
               = Cardinality({ i \in 1..Len(self_papers) : C14_Filtered(self_papers[i]) })

\* a set with an open-access core paper of 2021, a related paper of 2023 and a
\* paper outside the window: two rows, two papers counted
C20_Witness ==
    /\ apc = "saved"
    /\ Len(self_papers) = 3
    /\ self_papers[1].year = Some(2021) /\ self_papers[1].category = "core"
    /\ self_papers[1].open_access
    /\ self_papers[2].year = Some(2023) /\ self_papers[2].category = "related"
    /\ self_papers[3].year = Some(2019) /\ self_papers[3].category = "core"
    /\ Len(summary_stats) = 2
    /\ C20_SumTotals(2) = 2
    /\ summary_stats[1].core_open_access = 1

----------------------------------------------------------------------------
(* Claims about the run modes *)

====
